---- MODULE Spec2Model ----
(***************************************************************************)
(* Model of the heatzy client library: the DeviceMode codec of            *)
(* src/src/models.rs and the Client of src/src/client.rs.                  *)
(*                                                                         *)
(* Strings that the code only compares or copies are TLA+ strings.         *)
(* Strings that the code transforms (the CLI mode spelling, lower-cased by *)
(* from_cli_str) are sequences of one-character strings.                   *)
(* A 64-bit JSON integer is four 16-bit limbs, most significant first, in  *)
(* two's complement; an i32 is an integer in -2^31 .. 2^31-1.              *)
(***************************************************************************)
EXTENDS Integers, Sequences, FiniteSets, TLC

VARIABLES client, installed, call, resp, sent, ret

vars == <<client, installed, call, resp, sent, ret>>

\* ------------------------------------------------------------------------
\* Option and Result values
\* ------------------------------------------------------------------------
None == [some |-> FALSE]

Some(x) == [some |-> TRUE, val |-> x]

Ok(v) == [ok |-> TRUE, val |-> v]

Err(kind, msg) == [ok |-> FALSE, err |-> kind, msg |-> msg]

Unit == "()"

\* ------------------------------------------------------------------------
\* models.rs: DeviceMode and its three encodings
\* ------------------------------------------------------------------------
DeviceMode == {"Comfort", "Eco", "FrostProtection", "Stop", "ComfortMinus1", "ComfortMinus2"}

\* Rust's str::to_lowercase on the characters the inputs use
UpperChars == <<"A","B","C","D","E","F","G","H","I","J","K","L","M",
                "N","O","P","Q","R","S","T","U","V","W","X","Y","Z">>

LowerChars == <<"a","b","c","d","e","f","g","h","i","j","k","l","m",
                "n","o","p","q","r","s","t","u","v","w","x","y","z">>

to_lowercase_char(c) ==
    IF \E i \in 1..26 : UpperChars[i] = c
    THEN LowerChars[CHOOSE i \in 1..26 : UpperChars[i] = c]
    ELSE c

to_lowercase(s) == [i \in 1..Len(s) |-> to_lowercase_char(s[i])]

\* the string literals of from_cli_str / to_cli_str, as character sequences
S_comfort == <<"c","o","m","f","o","r","t">>

S_eco == <<"e","c","o">>

S_frost_protection == <<"f","r","o","s","t","-","p","r","o","t","e","c","t","i","o","n">>

S_frost == <<"f","r","o","s","t">>

S_stop == <<"s","t","o","p">>

S_comfort_1 == <<"c","o","m","f","o","r","t","-","1">>

S_comfort_minus_1 == <<"c","o","m","f","o","r","t","-","m","i","n","u","s","-","1">>

S_comfort_2 == <<"c","o","m","f","o","r","t","-","2">>

S_comfort_minus_2 == <<"c","o","m","f","o","r","t","-","m","i","n","u","s","-","2">>

\* from_int that takes every non-positive code for Comfort
from_int_nonpositive_comfort(value) ==
    CASE value <= 0 -> Ok("Comfort")
      [] value = 1 -> Ok("Eco")
      [] value = 2 -> Ok("FrostProtection")
      [] value = 3 -> Ok("Stop")
      [] value = 4 -> Ok("ComfortMinus1")
      [] value = 5 -> Ok("ComfortMinus2")
      [] OTHER -> Err("InvalidMode", <<"Invalid mode number: ", value>>)

from_int(value) ==
    CASE value = 0 -> Ok("Comfort")
      [] value = 1 -> Ok("Eco")
      [] value = 2 -> Ok("FrostProtection")
      [] value = 3 -> Ok("Stop")
      [] value = 4 -> Ok("ComfortMinus1")
      [] value = 5 -> Ok("ComfortMinus2")
      [] OTHER -> Err("InvalidMode", <<"Invalid mode number: ", value>>)

from_str_api(value) ==
    CASE value = "cft" -> Ok("Comfort")
      [] value = "eco" -> Ok("Eco")
      [] value = "fro" -> Ok("FrostProtection")
      [] value = "stop" -> Ok("Stop")
      [] value = "cft1" -> Ok("ComfortMinus1")
      [] value = "cft2" -> Ok("ComfortMinus2")
      [] OTHER -> Err("InvalidMode", <<"Invalid mode string: ", value>>)

CliValidModesText == ". Valid modes are: comfort, eco, frost-protection, stop, comfort-1, comfort-2"

from_cli_str(value) ==
    LET l == to_lowercase(value) IN
    CASE l = S_comfort -> Ok("Comfort")
      [] l = S_eco -> Ok("Eco")
      [] l = S_frost_protection \/ l = S_frost -> Ok("FrostProtection")
      [] l = S_stop -> Ok("Stop")
      [] l = S_comfort_1 \/ l = S_comfort_minus_1 -> Ok("ComfortMinus1")
      [] l = S_comfort_2 \/ l = S_comfort_minus_2 -> Ok("ComfortMinus2")
      [] OTHER -> Err("InvalidMode", <<"Invalid mode: ", value, CliValidModesText>>)

to_int(m) ==
    CASE m = "Comfort" -> 0
      [] m = "Eco" -> 1
      [] m = "FrostProtection" -> 2
      [] m = "Stop" -> 3
      [] m = "ComfortMinus1" -> 4
      [] m = "ComfortMinus2" -> 5

\* to_str_api with the string of ComfortMinus1 repeated for ComfortMinus2
to_str_api_repeated_cft1(m) ==
    CASE m = "Comfort" -> "cft"
      [] m = "Eco" -> "eco"
      [] m = "FrostProtection" -> "fro"
      [] m = "Stop" -> "stop"
      [] m = "ComfortMinus1" -> "cft1"
      [] m = "ComfortMinus2" -> "cft1"

to_str_api(m) ==
    CASE m = "Comfort" -> "cft"
      [] m = "Eco" -> "eco"
      [] m = "FrostProtection" -> "fro"
      [] m = "Stop" -> "stop"
      [] m = "ComfortMinus1" -> "cft1"
      [] m = "ComfortMinus2" -> "cft2"

to_cli_str(m) ==
    CASE m = "Comfort" -> S_comfort
      [] m = "Eco" -> S_eco
      [] m = "FrostProtection" -> S_frost_protection
      [] m = "Stop" -> S_stop
      [] m = "ComfortMinus1" -> S_comfort_1
      [] m = "ComfortMinus2" -> S_comfort_2

\* ------------------------------------------------------------------------
\* client.rs: constants, requests and responses
\* ------------------------------------------------------------------------
BASE_URL == "https://euapi.gizwits.com/app"

APP_ID == "c70a66ff039d41b4a220e198b0fcc8b3"

NOT_FOUND == 404

\* reqwest StatusCode::is_success
is_success(status) == 200 <= status /\ status <= 299

\* Client::new
new == [base_url |-> BASE_URL, token |-> None]

\* a request as built by http_client.post/get with the client's default headers
Request(method, url, user_token, body) ==
    [method |-> method, url |-> url, user_token |-> user_token,
     app_id |-> APP_ID, content_type |-> "application/json", body |-> body]

\* what the transport hands back for one request: a failure, or a response
TransportFail == [transport |-> "fail"]

Response(status, text, json) ==
    [transport |-> "ok", status |-> status, text |-> text, json |-> json]

\* response.text().await.unwrap_or_else(|_| "Unknown error")
error_text(r) == IF r.text.some THEN r.text.val ELSE "Unknown error"

\* response.json::<T>(): serde accepts the body only when it has T's fields
json_as(r, kind) ==
    IF r.json.kind = kind THEN Ok(r.json) ELSE Err("Network", <<"decode">>)

\* `num as i32` on an i64 held as four 16-bit limbs: keep the low 32 bits
as_i32(limbs) ==
    IF limbs[3] >= 32768
    THEN (limbs[3] - 65536) * 65536 + limbs[4]
    ELSE limbs[3] * 65536 + limbs[4]

\* serde_json Value::as_i64 / Value::as_str
as_i64(v) == IF v.k = "i64" THEN Some(v.limbs) ELSE None

as_str(v) == IF v.k = "str" THEN Some(v.s) ELSE None

\* ------------------------------------------------------------------------
\* client.rs: the methods.  Each takes the client (self), its arguments and
\* r, what the transport returns for the request the method may issue, and
\* yields [ret |-> the Result, sent |-> the requests issued, in order,
\* self |-> the client after the call].
\* ------------------------------------------------------------------------
Out(self, result, requests) == [ret |-> result, sent |-> requests, self |-> self]

ensure_authenticated(self) ==
    IF ~self.token.some THEN Err("NoToken", <<>>) ELSE Ok(Unit)

\* authenticated_get / authenticated_post: Ok(response) or the error, and
\* the requests that went out
authenticated_get(self, url, r) ==
    IF ~self.token.some
    THEN Out(self, Err("NoToken", <<>>), <<>>)
    ELSE LET req == Request("GET", url, Some(self.token.val), None) IN
         IF r.transport = "fail"
         THEN Out(self, Err("Network", <<"transport">>), <<req>>)
         ELSE Out(self, Ok(r), <<req>>)

authenticated_post(self, url, body, r) ==
    IF ~self.token.some
    THEN Out(self, Err("NoToken", <<>>), <<>>)
    ELSE LET req == Request("POST", url, Some(self.token.val), Some(body)) IN
         IF r.transport = "fail"
         THEN Out(self, Err("Network", <<"transport">>), <<req>>)
         ELSE Out(self, Ok(r), <<req>>)

\* login that installs the token it obtained
login_installs_token(self, username, password, r) ==
    LET url == <<self.base_url, "/login">>
        credentials == [username |-> username, password |-> password]
        req == Request("POST", url, None, Some(credentials))
    IN  IF r.transport = "fail"
        THEN Out(self, Err("Network", <<"transport">>), <<req>>)
        ELSE IF ~is_success(r.status)
        THEN Out(self, Err("Auth", <<"Login failed with status ", r.status, ": ", error_text(r)>>), <<req>>)
        ELSE LET parsed == json_as(r, "auth") IN
             IF ~parsed.ok THEN Out(self, parsed, <<req>>)
             ELSE Out([self EXCEPT !.token = Some(parsed.val.auth.token)], Ok(parsed.val.auth), <<req>>)

login(self, username, password, r) ==
    LET url == <<self.base_url, "/login">>
        credentials == [username |-> username, password |-> password]
        req == Request("POST", url, None, Some(credentials))
    IN  IF r.transport = "fail"
        THEN Out(self, Err("Network", <<"transport">>), <<req>>)
        ELSE IF ~is_success(r.status)
        THEN Out(self, Err("Auth", <<"Login failed with status ", r.status, ": ", error_text(r)>>), <<req>>)
        ELSE LET parsed == json_as(r, "auth") IN
             IF ~parsed.ok THEN Out(self, parsed, <<req>>)
             ELSE Out(self, Ok(parsed.val.auth), <<req>>)

\* set_token that only fills an empty slot
set_token_if_empty(self, token) ==
    IF self.token.some THEN self ELSE [self EXCEPT !.token = Some(token)]

set_token(self, token) == [self EXCEPT !.token = Some(token)]

\* connect that drops the session when the login step fails
connect_resets_on_failure(self, username, password, r) ==
    LET l == login(self, username, password, r) IN
    IF ~l.ret.ok
    THEN Out([self EXCEPT !.token = None], l.ret, l.sent)
    ELSE Out(set_token(l.self, l.ret.val.token), Ok(Unit), l.sent)

\* connect that keeps a token the client already holds
connect_keeps_token(self, username, password, r) ==
    LET l == login(self, username, password, r) IN
    IF ~l.ret.ok
    THEN l
    ELSE Out(IF l.self.token.some THEN l.self ELSE set_token(l.self, l.ret.val.token), Ok(Unit), l.sent)

connect(self, username, password, r) ==
    LET l == login(self, username, password, r) IN
    IF ~l.ret.ok
    THEN l
    ELSE Out(set_token(l.self, l.ret.val.token), Ok(Unit), l.sent)

list_devices(self, r) ==
    LET auth == ensure_authenticated(self) IN
    IF ~auth.ok THEN Out(self, auth, <<>>)
    ELSE LET url == <<self.base_url, "/bindings?limit=100&skip=0">>
             g == authenticated_get(self, url, r)
         IN  IF ~g.ret.ok THEN g
             ELSE IF ~is_success(r.status)
             THEN Out(self, Err("Api", <<"Failed to list devices with status ", r.status, ": ", error_text(r)>>), g.sent)
             ELSE LET parsed == json_as(r, "devices") IN
                  IF ~parsed.ok THEN Out(self, parsed, g.sent)
                  ELSE Out(self, Ok(parsed.val.devices), g.sent)

\* d.dev_alias == name, dev_alias being an Option<String>
alias_matches(d, name) == d.dev_alias.some /\ d.dev_alias.val = name

\* Iterator::find: the first element, in order, that satisfies the predicate
\* a search that keeps the last match instead of the first
find_by_alias_last(devices, name) ==
    LET hits == {i \in 1..Len(devices) : alias_matches(devices[i], name)} IN
    IF hits = {} THEN None
    ELSE Some(devices[CHOOSE i \in hits : \A j \in hits : i >= j])

find_by_alias(devices, name) ==
    LET hits == {i \in 1..Len(devices) : alias_matches(devices[i], name)} IN
    IF hits = {} THEN None
    ELSE Some(devices[CHOOSE i \in hits : \A j \in hits : i <= j])

\* get_device_by_name that lists once to check the session and once more to search
get_device_by_name_lists_twice(self, name, r) ==
    LET l == list_devices(self, r) IN
    IF ~l.ret.ok THEN Out(self, l.ret, l.sent \o l.sent)
    ELSE LET found == find_by_alias(l.ret.val, name) IN
         IF found.some THEN Out(self, Ok(found.val), l.sent \o l.sent)
         ELSE Out(self, Err("NotFound", <<"Device with name '", name, "' not found">>), l.sent \o l.sent)

get_device_by_name(self, name, r) ==
    LET l == list_devices(self, r) IN
    IF ~l.ret.ok THEN l
    ELSE LET found == find_by_alias(l.ret.val, name) IN
         IF found.some THEN Out(self, Ok(found.val), l.sent)
         ELSE Out(self, Err("NotFound", <<"Device with name '", name, "' not found">>), l.sent)

\* get_device without the ensure_authenticated guard and with the token header
\* left out when there is none
get_device_unguarded(self, device_id, r) ==
    LET url == <<self.base_url, "/devices/", device_id>>
        req == Request("GET", url, self.token, None)
    IN  IF r.transport = "fail"
        THEN Out(self, Err("Network", <<"transport">>), <<req>>)
        ELSE IF r.status = NOT_FOUND
        THEN Out(self, Err("NotFound", <<"Device '", device_id, "' not found">>), <<req>>)
        ELSE IF ~is_success(r.status)
        THEN Out(self, Err("Api", <<"Failed to get device with status ", r.status, ": ", error_text(r)>>), <<req>>)
        ELSE LET parsed == json_as(r, "device") IN
             IF ~parsed.ok THEN Out(self, parsed, <<req>>)
             ELSE Out(self, Ok(parsed.val.device), <<req>>)

get_device(self, device_id, r) ==
    LET auth == ensure_authenticated(self) IN
    IF ~auth.ok THEN Out(self, auth, <<>>)
    ELSE LET url == <<self.base_url, "/devices/", device_id>>
             g == authenticated_get(self, url, r)
         IN  IF ~g.ret.ok THEN g
             ELSE IF r.status = NOT_FOUND
             THEN Out(self, Err("NotFound", <<"Device '", device_id, "' not found">>), g.sent)
             ELSE IF ~is_success(r.status)
             THEN Out(self, Err("Api", <<"Failed to get device with status ", r.status, ": ", error_text(r)>>), g.sent)
             ELSE LET parsed == json_as(r, "device") IN
                  IF ~parsed.ok THEN Out(self, parsed, g.sent)
                  ELSE Out(self, Ok(parsed.val.device), g.sent)

\* the dispatch on the runtime kind of attr.mode
decode_mode_value(mode_value) ==
    LET num == as_i64(mode_value)
        str == as_str(mode_value)
    IN  IF num.some THEN from_int(as_i32(num.val))
        ELSE IF str.some THEN from_str_api(str.val)
        ELSE Err("Api", <<"Invalid mode value: ", mode_value>>)

get_device_mode(self, device_id, r) ==
    LET auth == ensure_authenticated(self) IN
    IF ~auth.ok THEN Out(self, auth, <<>>)
    ELSE LET url == <<self.base_url, "/devdata/", device_id, "/latest">>
             g == authenticated_get(self, url, r)
         IN  IF ~g.ret.ok THEN g
             ELSE IF r.status = NOT_FOUND
             THEN Out(self, Err("NotFound", <<"Device '", device_id, "' not found">>), g.sent)
             ELSE IF ~is_success(r.status)
             THEN Out(self, Err("Api", <<"Failed to get device data with status ", r.status, ": ", error_text(r)>>), g.sent)
             ELSE LET parsed == json_as(r, "devdata") IN
                  IF ~parsed.ok THEN Out(self, parsed, g.sent)
                  ELSE Out(self, decode_mode_value(parsed.val.mode), g.sent)

\* set_device_mode without the 404 branch
set_device_mode_no_not_found(self, device_id, mode, r) ==
    LET auth == ensure_authenticated(self) IN
    IF ~auth.ok THEN Out(self, auth, <<>>)
    ELSE LET url == <<self.base_url, "/control/", device_id>>
             control_request == [attrs |-> [mode |-> to_int(mode)]]
             g == authenticated_post(self, url, control_request, r)
         IN  IF ~g.ret.ok THEN g
             ELSE IF ~is_success(r.status)
             THEN Out(self, Err("Api", <<"Failed to control device with status ", r.status, ": ", error_text(r)>>), g.sent)
             ELSE Out(self, Ok(Unit), g.sent)

set_device_mode(self, device_id, mode, r) ==
    LET auth == ensure_authenticated(self) IN
    IF ~auth.ok THEN Out(self, auth, <<>>)
    ELSE LET url == <<self.base_url, "/control/", device_id>>
             control_request == [attrs |-> [mode |-> to_int(mode)]]
             g == authenticated_post(self, url, control_request, r)
         IN  IF ~g.ret.ok THEN g
             ELSE IF r.status = NOT_FOUND
             THEN Out(self, Err("NotFound", <<"Device '", device_id, "' not found">>), g.sent)
             ELSE IF ~is_success(r.status)
             THEN Out(self, Err("Api", <<"Failed to control device with status ", r.status, ": ", error_text(r)>>), g.sent)
             ELSE Out(self, Ok(Unit), g.sent)

\* ------------------------------------------------------------------------
\* bin/heatzy.rs: the set-mode command.  The process builds its own client;
\* r1 is what the transport returns for the listing request and r2 for the
\* control request, should the command issue them.
\* ------------------------------------------------------------------------
\* std::process::exit(1)
Exit == Err("exit", <<1>>)

\* anyhow's .context(text) on a Result
Context(result, text) ==
    IF result.ok THEN result ELSE Err(result.err, <<text>> \o result.msg)

\* .context("Failed to get device by name")? and device.did, g being what
\* get_device_by_name yielded
device_id_of(c, g) ==
    IF ~g.ret.ok
    THEN Out(c, Context(g.ret, "Failed to get device by name"), g.sent)
    ELSE Out(c, Ok(g.ret.val.did), g.sent)

\* the (device_name, device_id) match of the SetMode arm: Ok(device id), an
\* error, or the exit, with the requests issued
resolve_device_id(c, device_name, device_id, r1) ==
    IF device_name.some /\ ~device_id.some
    THEN device_id_of(c, get_device_by_name(c, device_name.val, r1))
    ELSE IF ~device_name.some /\ device_id.some
    THEN Out(c, Ok(device_id.val), <<>>)
    ELSE Out(c, Exit, <<>>)

\* client.set_device_mode(&device_id, mode).await.context(..)?, s being what
\* set_device_mode yielded and id the resolution before it
control_outcome(c, id, s) ==
    Out(c, Context(s.ret, "Failed to set device mode"), id.sent \o s.sent)

\* the rest of the arm with a mode argument that falls back to Comfort when
\* it does not decode
decode_or_comfort_and_control(c, id, m, r2) ==
    IF ~id.ret.ok THEN id
    ELSE control_outcome(c, id, set_device_mode(c, id.ret.val, IF m.ok THEN m.val ELSE "Comfort", r2))

\* the rest of the arm once the device id is resolved: decode the mode
\* argument (m), then send the control request
decode_and_control(c, id, m, r2) ==
    IF ~id.ret.ok THEN id
    ELSE IF ~m.ok THEN Out(c, Context(m, "Invalid mode"), id.sent)
    ELSE control_outcome(c, id, set_device_mode(c, id.ret.val, m.val, r2))

\* the SetMode arm on the client c that holds the token
set_mode_arm(c, device_name, device_id, mode, r1, r2) ==
    decode_and_control(c, resolve_device_id(c, device_name, device_id, r1), from_cli_str(mode), r2)

main_set_mode(token, device_name, device_id, mode, r1, r2) ==
    IF ~token.some THEN Out(new, Exit, <<>>)
    ELSE set_mode_arm(set_token(new, token.val), device_name, device_id, mode, r1, r2)

\* ------------------------------------------------------------------------
\* Inputs: arguments of the calls and what the server may answer
\* ------------------------------------------------------------------------
MaxDevices == 2

Tokens == {"abc", "xyz"}

Usernames == {"user@example.com"}

Passwords == {"secret"}

DeviceIds == {"d1", "d2"}

Names == {"Kitchen", "Bath", "Garage"}

Aliases == {None, Some("Kitchen"), Some("Bath"), Some("kitchen")}

Devices ==
    {[did |-> id, dev_alias |-> a, product_name |-> "Pilote", mac |-> "aabbcc", is_online |-> TRUE] :
        id \in DeviceIds, a \in Aliases}

Listings == UNION {[1..n -> Devices] : n \in 0..MaxDevices}

StatusCodes == {199, 200, 204, 299, 300, 401, 404, 500}

Texts == {Some("boom"), None}

\* 64-bit integers of every magnitude: sign, high and low words all vary
HighLimbs == {0, 1, 32768, 65535}

LowLimbs == (0..6) \cup {32768, 65535}

I64Values == {<<a, b, c, d>> : a \in HighLimbs, b \in HighLimbs, c \in HighLimbs, d \in LowLimbs}

ApiStrings == {"cft", "eco", "fro", "stop", "cft1", "cft2"}

ApiStrInputs == ApiStrings \cup {"ECO", "Cft", "bogus", "", "comfort", "0", "cft3", " eco"}

ModeValues ==
    {[k |-> "i64", limbs |-> l] : l \in I64Values}
    \cup {[k |-> "str", s |-> x] : x \in ApiStrInputs}
    \cup {[k |-> o] : o \in {"bool", "null", "float", "u64_above_i64", "array", "object"}}

Garbage == [kind |-> "garbage"]

AuthJsons == {[kind |-> "auth", auth |-> [token |-> t, uid |-> "u1", expire_at |-> 123]] : t \in Tokens}

DevicesJsons == {[kind |-> "devices", devices |-> ds] : ds \in Listings}

DeviceJsons == {[kind |-> "device", device |-> d] : d \in Devices}

DevDataJsons == {[kind |-> "devdata", mode |-> v] : v \in ModeValues}

Responses(jsons) ==
    {TransportFail}
    \cup {Response(st, t, j) : st \in StatusCodes, t \in Texts, j \in jsons \cup {Garbage}}

I32Inputs == (0..7) \cup {-2147483647, -65536, -6, -1, 65536, 65541, 2147483647}

\* CLI spellings: every accepted one in several letter cases, and rejected ones
to_uppercase_char(c) ==
    IF \E i \in 1..26 : LowerChars[i] = c
    THEN UpperChars[CHOOSE i \in 1..26 : LowerChars[i] = c]
    ELSE c

Upcase(s) == [i \in 1..Len(s) |-> to_uppercase_char(s[i])]

Capitalize(s) == [i \in 1..Len(s) |-> IF i = 1 THEN to_uppercase_char(s[i]) ELSE s[i]]

AltCase(s) == [i \in 1..Len(s) |-> IF i % 2 = 0 THEN to_uppercase_char(s[i]) ELSE s[i]]

CliCanonical == {S_comfort, S_eco, S_frost_protection, S_stop, S_comfort_1, S_comfort_2}

CliAliases == {S_frost, S_comfort_minus_1, S_comfort_minus_2}

CliRejected ==
    {<<>>, <<"w","a","r","m">>, <<"c","f","t">>, <<"f","r","o">>,
     <<"c","o","m","f","o","r","t","-","3">>, <<"c","o","m","f","o","r","t","_","1">>,
     <<"e","c","o"," ">>, <<" ","s","t","o","p">>, <<"c","o","m","f","o","r","t","-">>,
     <<"f","r","o","s","t","-">>, <<"c","o","m","f","o","r","t","-","m","i","n","u","s","-","3">>,
     <<"E","C","O","S">>, <<"0">>}

CliInputs ==
    LET base == CliCanonical \cup CliAliases IN
    base \cup {Upcase(s) : s \in base} \cup {Capitalize(s) : s \in base}
         \cup {AltCase(s) : s \in base} \cup CliRejected

\* ------------------------------------------------------------------------
\* State
\*   client    : the Client (base_url, token)
\*   installed : history of the tokens handed to set_token, by the caller or
\*               by a successful connect: the last one and the one before
\*   call      : the call that has just returned and its arguments, or NoCall
\*               once the caller has taken its result
\*   resp      : what the transport returned during that call
\*   sent      : the requests issued during that call, in order
\*   ret       : what the call returned
\* ------------------------------------------------------------------------
NoResp == [transport |-> "none"]

NoCall == [name |-> "none"]

Installs(inst, token) == [last |-> Some(token), earlier |-> inst.last]

Init ==
    /\ client = new
    /\ installed = [last |-> None, earlier |-> None]
    /\ call = NoCall
    /\ resp = NoResp
    /\ sent = <<>>
    /\ ret = Ok(Unit)

\* the bookkeeping common to the calls: c is the call, out what it yields
Returns(c, out, r) ==
    /\ call' = c
    /\ ret' = out.ret
    /\ sent' = out.sent
    /\ resp' = IF out.sent = <<>> THEN NoResp ELSE r
    /\ client' = out.self

Login ==
    /\ call = NoCall
    /\ \E u \in Usernames, p \in Passwords, r \in Responses(AuthJsons) :
           Returns([name |-> "login", username |-> u, password |-> p], login(client, u, p, r), r)
    /\ UNCHANGED installed

Connect ==
    /\ call = NoCall
    /\ \E u \in Usernames, p \in Passwords, r \in Responses(AuthJsons) :
           LET out == connect(client, u, p, r) IN
           /\ Returns([name |-> "connect", username |-> u, password |-> p], out, r)
           /\ installed' = IF out.ret.ok THEN Installs(installed, r.json.auth.token) ELSE installed

SetToken ==
    /\ call = NoCall
    /\ \E t \in Tokens :
           /\ Returns([name |-> "set_token", token |-> t], Out(set_token(client, t), Ok(Unit), <<>>), NoResp)
           /\ installed' = Installs(installed, t)

ListDevices ==
    /\ call = NoCall
    /\ \E r \in Responses(DevicesJsons) :
           Returns([name |-> "list_devices"], list_devices(client, r), r)
    /\ UNCHANGED installed

GetDeviceByName ==
    /\ call = NoCall
    /\ \E n \in Names, r \in Responses(DevicesJsons) :
           Returns([name |-> "get_device_by_name", arg |-> n], get_device_by_name(client, n, r), r)
    /\ UNCHANGED installed

GetDevice ==
    /\ call = NoCall
    /\ \E id \in DeviceIds, r \in Responses(DeviceJsons) :
           Returns([name |-> "get_device", device_id |-> id], get_device(client, id, r), r)
    /\ UNCHANGED installed

GetDeviceMode ==
    /\ call = NoCall
    /\ \E id \in DeviceIds, r \in Responses(DevDataJsons) :
           Returns([name |-> "get_device_mode", device_id |-> id], get_device_mode(client, id, r), r)
    /\ UNCHANGED installed

SetDeviceMode ==
    /\ call = NoCall
    /\ \E id \in DeviceIds, m \in DeviceMode, r \in Responses({}) :
           Returns([name |-> "set_device_mode", device_id |-> id, mode |-> m],
                   set_device_mode(client, id, m, r), r)
    /\ UNCHANGED installed

\* the codec's functions, called directly
FromInt ==
    /\ call = NoCall
    /\ \E v \in I32Inputs :
           Returns([name |-> "from_int", value |-> v], Out(client, from_int(v), <<>>), NoResp)
    /\ UNCHANGED installed

FromStrApi ==
    /\ call = NoCall
    /\ \E v \in ApiStrInputs :
           Returns([name |-> "from_str_api", value |-> v], Out(client, from_str_api(v), <<>>), NoResp)
    /\ UNCHANGED installed

FromCliStr ==
    /\ call = NoCall
    /\ \E v \in CliInputs :
           Returns([name |-> "from_cli_str", value |-> v], Out(client, from_cli_str(v), <<>>), NoResp)
    /\ UNCHANGED installed

ToInt ==
    /\ call = NoCall
    /\ \E m \in DeviceMode :
           Returns([name |-> "to_int", mode |-> m], Out(client, to_int(m), <<>>), NoResp)
    /\ UNCHANGED installed

ToStrApi ==
    /\ call = NoCall
    /\ \E m \in DeviceMode :
           Returns([name |-> "to_str_api", mode |-> m], Out(client, to_str_api(m), <<>>), NoResp)
    /\ UNCHANGED installed

ToCliStr ==
    /\ call = NoCall
    /\ \E m \in DeviceMode :
           Returns([name |-> "to_cli_str", mode |-> m], Out(client, to_cli_str(m), <<>>), NoResp)
    /\ UNCHANGED installed

\* command-line arguments of set-mode and the answers to its two requests
CliTokens == {None} \cup {Some(t) : t \in Tokens}

CliDeviceNames == {None} \cup {Some(n) : n \in Names}

CliDeviceIds == {None} \cup {Some(id) : id \in DeviceIds}

CliModeArgs ==
    CliCanonical \cup {S_comfort_minus_1, Upcase(S_frost), Capitalize(S_comfort_2),
                       <<"w","a","r","m">>, <<"c","f","t">>, <<>>}

CliListings ==
    {ds \in Listings : \A i \in 1..Len(ds) : ds[i].dev_alias \in {None} \cup {Some(n) : n \in Names}}

CliListingResponses ==
    {TransportFail, Response(500, None, Garbage), Response(200, None, Garbage)}
    \cup {Response(200, None, [kind |-> "devices", devices |-> ds]) : ds \in CliListings}

CliControlResponses ==
    {TransportFail} \cup {Response(st, None, Garbage) : st \in {200, 404, 500}}

\* the answers that matter: a request the command does not issue has none
ListingAnswers(t, dn, di) ==
    IF t.some /\ dn.some /\ ~di.some THEN CliListingResponses ELSE {NoResp}

HasRequest(requests, method) ==
    \E i \in 1..Len(requests) : requests[i].method = method

ControlAnswers(t, dn, di, m, r1) ==
    IF HasRequest(main_set_mode(t, dn, di, m, r1, TransportFail).sent, "POST")
    THEN CliControlResponses ELSE {NoResp}

\* the bookkeeping of the command: a is its arguments, out what it yields
MainReturns(a, out, r1, r2) ==
    /\ call' = a
    /\ ret' = out.ret
    /\ sent' = out.sent
    /\ resp' = [transport |-> "cli",
                listing |-> IF HasRequest(out.sent, "GET") THEN r1 ELSE NoResp,
                control |-> IF HasRequest(out.sent, "POST") THEN r2 ELSE NoResp]

\* one run of `heatzy set-mode`: a process of its own, with its own client
MainSetMode ==
    /\ call = NoCall
    /\ \E t \in CliTokens, dn \in CliDeviceNames, di \in CliDeviceIds, m \in CliModeArgs :
        \E r1 \in ListingAnswers(t, dn, di) :
        \E r2 \in ControlAnswers(t, dn, di, m, r1) :
           MainReturns([name |-> "main_set_mode", token |-> t, device_name |-> dn,
                        device_id |-> di, mode |-> m],
                       main_set_mode(t, dn, di, m, r1, r2), r1, r2)
    /\ UNCHANGED <<client, installed>>

\* the caller takes the returned value: each call is awaited to completion
\* before the next one is made, and only the client outlives it
TakeResult ==
    /\ call # NoCall
    /\ call' = NoCall
    /\ resp' = NoResp
    /\ sent' = <<>>
    /\ ret' = Ok(Unit)
    /\ UNCHANGED <<client, installed>>

Next ==
    \/ TakeResult
    \/ Login
    \/ Connect
    \/ SetToken
    \/ ListDevices
    \/ GetDeviceByName
    \/ GetDevice
    \/ GetDeviceMode
    \/ SetDeviceMode
    \/ FromInt
    \/ FromStrApi
    \/ FromCliStr
    \/ ToInt
    \/ ToStrApi
    \/ ToCliStr
    \/ MainSetMode

Spec == Init /\ [][Next]_vars

\* ------------------------------------------------------------------------
\* Properties
\* ------------------------------------------------------------------------
AuthenticatedOps ==
    {"list_devices", "get_device_by_name", "get_device", "get_device_mode", "set_device_mode"}

Failed(result, kind) == ~result.ok /\ result.err = kind

\* C1: a call of list_devices, get_device_by_name, get_device, get_device_mode
\* or set_device_mode made while the client holds no token fails with NoToken
\* and issues no request, whatever its arguments and whatever came before.
C1_NoTokenNoRequest ==
    [][(call'.name \in AuthenticatedOps /\ ~client.token.some)
          => (Failed(ret', "NoToken") /\ sent' = <<>>)]_vars

\* reached: get_device_mode has returned NoToken on a client without a token
C1_Witness ==
    /\ call.name = "get_device_mode"
    /\ ~client.token.some
    /\ Failed(ret, "NoToken")
    /\ sent = <<>>

\* C3: once a token is installed it stays installed through every later step.
C3_NoReverseTransition ==
    [][client.token.some => client'.token.some]_vars

\* reached: a connect has failed on a client that held a token, and it still does
C3_Witness ==
    /\ call.name = "connect"
    /\ ~ret.ok
    /\ installed.last.some
    /\ client.token.some

\* C4: every call other than set_token and connect leaves base_url and token
\* as they were, whether it succeeds or fails.
C4_OnlySetTokenAndConnectMutate ==
    [][(call'.name \notin {"set_token", "connect"}) => client' = client]_vars

\* reached: a login has succeeded and the client still holds no token
C4_Witness ==
    /\ call.name = "login"
    /\ ret.ok
    /\ ~client.token.some
    /\ client.base_url = BASE_URL

\* C5: connect returns what login returns on the same response; on success
\* the token becomes the token of the login response and connect returns
\* Ok(()); on failure the error is login's (Network or Auth) and the token
\* is the one held before the call.
C5_ConnectIsLoginThenSetToken ==
    [][call'.name = "connect" =>
          LET l == login(client, call'.username, call'.password, resp') IN
          IF l.ret.ok
          THEN /\ ret' = Ok(Unit)
               /\ client'.token = Some(l.ret.val.token)
               /\ client'.token = Some(resp'.json.auth.token)
          ELSE /\ ret' = l.ret
               /\ ret'.err \in {"Network", "Auth"}
               /\ client'.token = client.token]_vars

\* reached: a successful connect has replaced an earlier, different token
C5_Witness ==
    /\ call.name = "connect"
    /\ ret = Ok(Unit)
    /\ installed.earlier.some
    /\ installed.earlier # installed.last
    /\ client.token = Some(resp.json.auth.token)

\* the mode values the claim calls valid: an integer in 0..5 or an API string
ValidModeValue(v) ==
    \/ v.k = "i64" /\ v.limbs \in {<<0, 0, 0, n>> : n \in 0..5}
    \/ v.k = "str" /\ v.s \in ApiStrings

GotModeValue ==
    /\ call.name = "get_device_mode"
    /\ resp.transport = "ok"
    /\ is_success(resp.status)
    /\ resp.json.kind = "devdata"

\* C2: when get_device_mode receives a 2xx response whose mode field is not
\* an integer in 0..5 and not one of the six API strings, the call fails with
\* InvalidMode and returns no mode.
C2_InvalidModeValueRejected ==
    (GotModeValue /\ ~ValidModeValue(resp.json.mode)) => Failed(ret, "InvalidMode")

ModeOrder == <<"Comfort", "Eco", "FrostProtection", "Stop", "ComfortMinus1", "ComfortMinus2">>

CanonicalOfAlias(l) ==
    CASE l = S_frost -> S_frost_protection
      [] l = S_comfort_minus_1 -> S_comfort_1
      [] l = S_comfort_minus_2 -> S_comfort_2
      [] OTHER -> l

\* C6: decoding the encoding of a mode gives the mode back, in the integer,
\* API-string and CLI-string representations; and every accepted CLI spelling
\* decodes to a mode whose to_cli_str is the canonical string that spelling
\* stands for.
C6_RoundTrip ==
    /\ call.name = "to_int" => from_int(ret) = Ok(call.mode)
    /\ call.name = "to_str_api" => from_str_api(ret) = Ok(call.mode)
    /\ call.name = "to_cli_str" => from_cli_str(ret) = Ok(call.mode)
    /\ (call.name = "from_cli_str" /\ ret.ok) =>
          /\ to_cli_str(ret.val) \in CliCanonical
          /\ to_cli_str(ret.val) = CanonicalOfAlias(to_lowercase(call.value))
          /\ from_cli_str(to_cli_str(ret.val)) = ret

\* reached: an upper-case alias has decoded to ComfortMinus2
C6_Witness ==
    /\ call.name = "from_cli_str"
    /\ call.value = Upcase(S_comfort_minus_2)
    /\ ret = Ok("ComfortMinus2")
    /\ to_cli_str(ret.val) = S_comfort_2

\* C7: from_int yields a mode exactly for 0..5, in the order of the codes;
\* from_str_api exactly for the six API strings; from_cli_str exactly when the
\* lower-cased input is a canonical string or an alias; every other input
\* fails with InvalidMode.
C7_DecodeClosedSets ==
    /\ call.name = "from_int" =>
          /\ ret.ok <=> call.value \in 0..5
          /\ ret.ok => ret.val = ModeOrder[call.value + 1]
          /\ ~ret.ok => ret.err = "InvalidMode"
    /\ call.name = "from_str_api" =>
          /\ ret.ok <=> call.value \in ApiStrings
          /\ ret.ok => to_str_api(ret.val) = call.value
          /\ ~ret.ok => ret.err = "InvalidMode"
    /\ call.name = "from_cli_str" =>
          /\ ret.ok <=> to_lowercase(call.value) \in CliCanonical \cup CliAliases
          /\ ~ret.ok => ret.err = "InvalidMode"

\* reached: from_int has rejected -1
C7_Witness ==
    /\ call.name = "from_int"
    /\ call.value = -1
    /\ Failed(ret, "InvalidMode")

\* C8: on a response, get_device, get_device_mode and set_device_mode return
\* NotFound on 404 and Api on any other non-2xx status, succeed only on 2xx,
\* and set_device_mode succeeds on every 2xx whatever the body; login returns
\* Auth and list_devices Api on every non-2xx status, 404 included.
C8_ErrorKindByStatus ==
    (resp.transport = "ok") =>
       /\ call.name \in {"get_device", "get_device_mode", "set_device_mode"} =>
             /\ resp.status = NOT_FOUND => Failed(ret, "NotFound")
             /\ (~is_success(resp.status) /\ resp.status # NOT_FOUND) => Failed(ret, "Api")
             /\ ret.ok => is_success(resp.status)
       /\ call.name = "set_device_mode" =>
             (is_success(resp.status) => ret = Ok(Unit))
       /\ call.name = "login" =>
             /\ ~is_success(resp.status) => Failed(ret, "Auth")
             /\ ret.ok => is_success(resp.status)
       /\ call.name = "list_devices" =>
             /\ ~is_success(resp.status) => Failed(ret, "Api")
             /\ ret.ok => is_success(resp.status)

\* reached: set_device_mode has returned NotFound on a 404
C8_Witness ==
    /\ call.name = "set_device_mode"
    /\ resp.transport = "ok"
    /\ resp.status = NOT_FOUND
    /\ Failed(ret, "NotFound")

ListingSucceeded ==
    /\ resp.transport = "ok"
    /\ is_success(resp.status)
    /\ resp.json.kind = "devices"

\* C9: on a successful listing get_device_by_name returns the first device
\* whose dev_alias is exactly the name (a device without alias never
\* matches), or NotFound with the name in its message when there is none; on
\* a failed listing it returns the listing's error.
C9_FirstExactAliasMatch ==
    call.name = "get_device_by_name" =>
       IF ListingSucceeded
       THEN LET ds == resp.json.devices
                hits == {i \in 1..Len(ds) : ds[i].dev_alias = Some(call.arg)}
            IN  IF hits = {}
                THEN /\ Failed(ret, "NotFound")
                     /\ \E i \in 1..Len(ret.msg) : ret.msg[i] = call.arg
                ELSE \E i \in hits :
                        /\ \A j \in hits : i <= j
                        /\ ret = Ok(ds[i])
       ELSE /\ ~ret.ok
            /\ ret = list_devices(client, resp).ret

\* reached: two different devices carry the name and the first was returned
C9_Witness ==
    /\ call.name = "get_device_by_name"
    /\ ListingSucceeded
    /\ Len(resp.json.devices) = 2
    /\ resp.json.devices[1].dev_alias = Some(call.arg)
    /\ resp.json.devices[2].dev_alias = Some(call.arg)
    /\ resp.json.devices[1] # resp.json.devices[2]
    /\ ret = Ok(resp.json.devices[1])

\* C10: every request issued by an authenticated operation carries, as its
\* user token, the token of the last set_token or last successful connect.
C10_RequestCarriesLastToken ==
    call.name \in AuthenticatedOps =>
       \A i \in 1..Len(sent) :
          /\ installed.last.some
          /\ sent[i].user_token = installed.last

\* reached: a second, different token was installed and list_devices sent it
C10_Witness ==
    /\ call.name = "list_devices"
    /\ installed.earlier.some
    /\ installed.earlier # installed.last
    /\ Len(sent) = 1
    /\ sent[1].user_token = installed.last

\* C11: a call of login or connect, and a call of list_devices,
\* get_device_by_name, get_device, get_device_mode or set_device_mode made
\* with a token installed, issues exactly one request, whatever the outcome
\* of that request: there is no second request.
C11_ExactlyOneRequest ==
    [][(\/ call'.name \in {"login", "connect"}
        \/ call'.name \in AuthenticatedOps /\ client.token.some)
          => Len(sent') = 1]_vars

\* reached: get_device_by_name got a 500 and returned Api after one request
C11_Witness ==
    /\ call.name = "get_device_by_name"
    /\ resp.transport = "ok"
    /\ resp.status = 500
    /\ Failed(ret, "Api")
    /\ Len(sent) = 1

\* the control requests among the requests of the last call
ControlRequests ==
    {i \in 1..Len(sent) : sent[i].method = "POST" /\ sent[i].url[2] = "/control/"}

\* --name was given alone and the listing did not yield a device of that name
NameResolutionFailed ==
    /\ call.device_name.some
    /\ ~call.device_id.some
    /\ ~(/\ resp.listing.transport = "ok"
          /\ is_success(resp.listing.status)
          /\ resp.listing.json.kind = "devices"
          /\ \E i \in 1..Len(resp.listing.json.devices) :
                resp.listing.json.devices[i].dev_alias = call.device_name)

\* C12: in set-mode every control request sent carries an integer mode in
\* 0..5 equal to to_int of the mode the mode argument decodes to; and no
\* control request is sent when the mode argument does not decode, when no
\* token was given, or when resolving --name fails.
C12_SetModeControlRequest ==
    call.name = "main_set_mode" =>
       /\ \A i \in ControlRequests :
             /\ from_cli_str(call.mode).ok
             /\ sent[i].body.val.attrs.mode = to_int(from_cli_str(call.mode).val)
             /\ sent[i].body.val.attrs.mode \in 0..5
       /\ (\/ ~from_cli_str(call.mode).ok
           \/ ~call.token.some
           \/ NameResolutionFailed) => ControlRequests = {}

\* reached: `set-mode --name Bath FROST` listed, then sent mode 2 to the device
C12_Witness ==
    /\ call.name = "main_set_mode"
    /\ call.mode = Upcase(S_frost)
    /\ call.device_name = Some("Bath")
    /\ Len(sent) = 2
    /\ ControlRequests = {2}
    /\ sent[2].body.val.attrs.mode = 2
    /\ ret.ok

====
